---- MODULE Spec2Model ----
(***************************************************************************)
(* Model of S3Transfer (opentaskpy/addons/aws/remotehandlers/s3.py).       *)
(* Strings are sequences of one-character strings so that split('/'),      *)
(* re.match, re.sub and string concatenation are computed, not assumed.    *)
(* One behaviour is one handler (constructed with one spec) serving one    *)
(* call; every backend request of the call is one step.                    *)
(***************************************************************************)
EXTENDS Integers, Sequences, FiniteSets, TLC

----------------------------------------------------------------------------
(* Bounds *)

MaxFiles == 2
MaxPages == 3

----------------------------------------------------------------------------
(* Program constant *)

MAX_OBJECTS_PER_QUERY == 100

----------------------------------------------------------------------------
(* String literals used as inputs *)

KeyA == <<"a">>
KeyB == <<"b">>
KeyNested == <<"i", "n", "/", "t", "m", "p", "_", "a">>
KeyInA == <<"i", "n", "/", "a">>
KeyReport == <<"i", "n", "c", "o", "m", "i", "n", "g", "/", "t", "m", "p", "_", "r", "e", "p", "o", "r", "t", ".", "c", "s", "v">>
DestArchive == <<"a", "r", "c", "h", "i", "v", "e">>
DestArchiveSlash == <<"a", "r", "c", "h", "i", "v", "e", "/">>
PatTmp == <<"^", "t", "m", "p", "_">>
PatTmpFree == <<"t", "m", "p", "_">>
PatA == <<"a">>
PatAEnd == <<"a", "$">>
SubDone == <<"d", "o", "n", "e", "_">>
StageDir == <<"s", "t", "g">>
DirOut == <<"o", "u", "t">>
PrefixIn == <<"i", "n">>
NameC == <<"c">>
NameD == <<"d">>
NameHidden == <<".", "h">>
ExpectedRenamed == <<"a", "r", "c", "h", "i", "v", "e", "/", "d", "o", "n", "e", "_", "r", "e", "p", "o", "r", "t", ".", "c", "s", "v">>
Slash == <<"/">>
NoString == <<>>

KeyUniverse == {KeyA, KeyB, KeyNested, KeyReport}
(* With a second key of base name a, for the calls that write by base name *)
WideKeys == KeyUniverse \cup {KeyInA}
LocalNames == {KeyA, KeyB, NameC, NameD, NameHidden}
BucketNames == {"src", "dst"}

(* The characters that occur, in ASCII order; S3 lists keys in this order. *)
Alphabet == <<"$", ".", "/", "^", "_", "a", "b", "c", "d", "e", "g", "h", "i", "m", "n", "o", "p", "r", "s", "t", "u", "v">>

----------------------------------------------------------------------------
(* Pure helpers: Python string operations *)

Min(a, b) == IF a < b THEN a ELSE b

Range(s) == {s[j] : j \in DOMAIN s}

(* All sequences over S of length at most n *)
SeqsUpTo(S, n) == UNION {[1..m -> S] : m \in 0..n}

StartsWith(s, p) == Len(p) <= Len(s) /\ SubSeq(s, 1, Len(p)) = p

(* Position of the last '/' of s, 0 when there is none *)
LastSlash(s) ==
    LET P == {j \in DOMAIN s : s[j] = "/"}
    IN  IF P = {} THEN 0 ELSE CHOOSE j \in P : \A k \in P : k <= j

(* s.split('/')[-1] *)
BaseName(s) == SubSeq(s, LastSlash(s) + 1, Len(s))

Ord(c) == CHOOSE j \in DOMAIN Alphabet : Alphabet[j] = c

(* s < t in code-point order *)
StrLess(s, t) ==
    \E j \in 1..(Min(Len(s), Len(t)) + 1) :
        /\ \A k \in 1..(j - 1) : s[k] = t[k]
        /\ \/ j = Len(s) + 1 /\ j <= Len(t)
           \/ j <= Len(s) /\ j <= Len(t) /\ Ord(s[j]) < Ord(t[j])

RECURSIVE SortKeys(_)
SortKeys(S) ==
    IF S = {} THEN <<>>
    ELSE LET m == CHOOSE x \in S : \A y \in S \ {x} : StrLess(x, y)
         IN  <<m>> \o SortKeys(S \ {m})

(* A pattern of the family  ^? literal $?  split into its parts *)
ParsePattern(p) ==
    LET st == Len(p) >= 1 /\ p[1] = "^"
        en == Len(p) >= 1 /\ p[Len(p)] = "$"
        lo == IF st THEN 2 ELSE 1
        hi == IF en THEN Len(p) - 1 ELSE Len(p)
    IN  [start |-> st, end |-> en, lit |-> SubSeq(p, lo, hi)]

MatchAt(lit, s, j) ==
    j + Len(lit) - 1 <= Len(s) /\ SubSeq(s, j, j + Len(lit) - 1) = lit

(* Variant: the pattern has to match the whole of s (re.fullmatch) *)
ReMatch_Full(p, s) == s = ParsePattern(p).lit

(* re.match(p, s): the pattern matches at the beginning of s *)
ReMatch(p, s) ==
    LET P == ParsePattern(p)
    IN  IF P.end THEN s = P.lit ELSE MatchAt(P.lit, s, 1)

RECURSIVE SubFrom(_, _, _, _)
SubFrom(lit, repl, s, j) ==
    IF j > Len(s) THEN <<>>
    ELSE IF MatchAt(lit, s, j)
         THEN repl \o SubFrom(lit, repl, s, j + Len(lit))
         ELSE <<s[j]>> \o SubFrom(lit, repl, s, j + 1)

(* re.sub(p, repl, s): every non-overlapping match replaced, left to right *)
ReSub(p, repl, s) ==
    LET P == ParsePattern(p)
        n == Len(P.lit)
    IN  IF P.start /\ P.end THEN (IF s = P.lit THEN repl ELSE s)
        ELSE IF P.start
             THEN (IF MatchAt(P.lit, s, 1)
                   THEN repl \o SubSeq(s, n + 1, Len(s)) ELSE s)
        ELSE IF P.end
             THEN (IF Len(s) >= n /\ MatchAt(P.lit, s, Len(s) - n + 1)
                   THEN SubSeq(s, 1, Len(s) - n) \o repl ELSE s)
        ELSE SubFrom(P.lit, repl, s, 1)

----------------------------------------------------------------------------
(* State *)

VARIABLES
    cfg,           \* self.spec of the handler
    store,         \* bucket name -> (key -> object): the object store
    localfs,       \* local path -> body: the worker's file system
    log,           \* the requests issued so far, in order
    pc,            \* position of the call
    files,         \* the list the call iterates over
    idx,           \* index of the next element being handled
    result,        \* the local variable result
    returned,      \* how the call ended: "no", "int", "None", "dict", "raised"
    kwargs,        \* list_files: the request arguments
    remote_files,  \* list_files: the dict being built
    response,      \* list_files: the response of the current round
    arg            \* the other arguments of the call

vars == <<cfg, store, localfs, log, pc, files, idx, result, returned,
          kwargs, remote_files, response, arg>>

NoToken == 0

NoArg == [op |-> "none", directory |-> NoString, file_pattern |-> NoString,
          dest_type |-> "none", dest_bucket |-> "dst",
          dest_directory |-> NoString, staging |-> NoString]

NoKwargs == [Bucket |-> "src", MaxKeys |-> 0, Prefix |-> NoString,
             ContinuationToken |-> NoToken]

EmptyMap == [k \in {} |-> 0]

(* No response received yet *)
NoResponse == [KeyCount |-> 0, Contents |-> <<>>,
               NextContinuationToken |-> NoToken]

(* A request as the log records it *)
Req(op) == [op |-> op, bucket |-> "", key |-> NoString,
            dstBucket |-> "", dstKey |-> NoString, path |-> NoString,
            keys |-> <<>>, quiet |-> FALSE, maxKeys |-> 0,
            token |-> NoToken, prefix |-> NoString, acl |-> "", ok |-> TRUE,
            errors |-> {}, keyCount |-> 0, contents |-> <<>>,
            nextToken |-> NoToken]

Put(f, k, v) == [x \in (DOMAIN f) \cup {k} |-> IF x = k THEN v ELSE f[x]]

Remove(f, K) == [x \in (DOMAIN f) \ K |-> f[x]]

(* The specs a handler is constructed with *)
MkSpec(action, destination, pattern, sub, bofc) ==
    [bucket |-> "src", directory |-> DirOut, action |-> action,
     destination |-> destination, pattern |-> pattern, sub |-> sub,
     bucket_owner_full_control |-> bofc]

Specs ==
    { MkSpec("absent", NoString, NoString, NoString, TRUE),
      MkSpec("none", NoString, NoString, NoString, FALSE),
      MkSpec("delete", NoString, NoString, NoString, TRUE),
      MkSpec("move", DestArchive, NoString, NoString, TRUE),
      MkSpec("move", DestArchiveSlash, NoString, NoString, TRUE),
      MkSpec("rename", DestArchiveSlash, PatTmp, SubDone, TRUE),
      MkSpec("rename", DestArchive, PatTmpFree, SubDone, TRUE) }

(* The object first stored under a key of the universe *)
InitialObject(k) ==
    [body |-> Ord(k[Len(k)]) + Len(k),
     size |-> 10 * (Ord(k[Len(k)]) + Len(k)), mtime |-> 1000 + Len(k)]

(* A bucket holding exactly the keys K *)
BucketWith(K) == [k \in K |-> InitialObject(k)]

Init ==
    /\ cfg \in Specs
    /\ store = [b \in BucketNames |-> EmptyMap]
    /\ localfs = EmptyMap
    /\ log = <<>>
    /\ pc = "idle"
    /\ files = <<>>
    /\ idx = 1
    /\ result = 0
    /\ returned = "no"
    /\ kwargs = NoKwargs
    /\ remote_files = EmptyMap
    /\ response = NoResponse
    /\ arg = NoArg

----------------------------------------------------------------------------
(* The environment: what the backend and the file system answer *)

SizeOf(body) == 10 * body

(* The content of the local file called name *)
LocalBody(name) == 100 + Ord(name[Len(name)])

(* A staging directory holding exactly the entries named in N *)
StagingWith(dir, N) == [p \in {dir \o Slash \o n : n \in N} |-> LocalBody(BaseName(p))]

(* All orderings of a finite set, as sequences *)
RECURSIVE Orderings(_)
Orderings(S) ==
    IF S = {} THEN {<<>>}
    ELSE UNION {{<<x>> \o q : q \in Orderings(S \ {x})} : x \in S}

(* glob.glob(f"{dir}/*"): the entries directly inside dir whose name does  *)
(* not begin with '.', in an order the file system chooses                 *)
GlobSet(dir, fs) ==
    {p \in DOMAIN fs : /\ StartsWith(p, dir \o Slash)
                       /\ LastSlash(p) = Len(dir) + 1
                       /\ Len(p) > Len(dir) + 1
                       /\ p[Len(dir) + 2] # "."}

Glob(dir, fs) == Orderings(GlobSet(dir, fs))

(* The keys list_objects_v2 enumerates for a prefix, in listing order *)
Listing(bucket, prefix) ==
    SortKeys({k \in DOMAIN store[bucket] : StartsWith(k, prefix)})

(* The responses list_objects_v2 may give to a request: count keys from    *)
(* position start of the listing, and the next token (NoToken: absent).    *)
(* A response may carry fewer keys than MaxKeys, even none; the backend    *)
(* serves at most MaxPages pages.                                          *)
ListResponses(L, kw, served) ==
    LET start == IF kw.ContinuationToken = NoToken THEN 0
                 ELSE kw.ContinuationToken - 1
        rest  == Len(L) - start
        last  == served + 1 >= MaxPages
        Counts == {n \in 0..Min(kw.MaxKeys, rest) : last => n = rest}
        Tokens(c) == IF last THEN {NoToken}
                     ELSE IF c < rest THEN {start + c + 1}
                     ELSE {NoToken, start + c + 1}
    IN  UNION { { [KeyCount |-> c,
                   Contents |-> SubSeq(L, start + 1, start + c),
                   NextContinuationToken |-> t] : t \in Tokens(c) } :
                c \in Counts }

(* head_object: the metadata of an object *)
HeadObject(bucket, key) ==
    [ContentLength |-> store[bucket][key].size,
     LastModified |-> store[bucket][key].mtime]

(* The object a copy of o creates *)
CopyOf(o) == [body |-> o.body, size |-> o.size, mtime |-> o.mtime + 1000]

(* The object an upload of a local file creates *)
Uploaded(body) == [body |-> body, size |-> SizeOf(body), mtime |-> 2000 + body]

----------------------------------------------------------------------------
(* push_files_from_worker *)

CallPushFilesFromWorker(N) ==
    /\ pc = "idle"
    /\ localfs' = StagingWith(StageDir, N)
    /\ files' \in Glob(StageDir, StagingWith(StageDir, N))
    /\ arg' = [arg EXCEPT !.op = "push", !.staging = StageDir]
    /\ result' = 0
    /\ idx' = 1
    /\ pc' = "push"
    /\ UNCHANGED <<cfg, store, log, returned, kwargs, remote_files, response>>

(* One iteration of the loop: upload_file inside try/except *)
PushUpload(ok) ==
    /\ pc = "push"
    /\ idx <= Len(files)
    /\ LET file == files[idx]
           file_name == BaseName(file)
           key == cfg.directory \o Slash \o file_name
           rq == [Req("upload_file") EXCEPT
                    !.path = file, !.bucket = cfg.bucket, !.key = key,
                    !.acl = IF cfg.bucket_owner_full_control
                            THEN "bucket-owner-full-control" ELSE "",
                    !.ok = ok]
       IN  /\ log' = Append(log, rq)
           /\ store' = IF ok
                       THEN [store EXCEPT ![cfg.bucket] =
                                Put(@, key, Uploaded(localfs[file]))]
                       ELSE store
           /\ result' = IF ok THEN result ELSE 1
    /\ idx' = idx + 1
    /\ UNCHANGED <<cfg, localfs, pc, files, returned, kwargs, remote_files, response, arg>>

PushReturn ==
    /\ pc = "push"
    /\ idx > Len(files)
    /\ returned' = "int"
    /\ pc' = "done"
    /\ UNCHANGED <<cfg, store, localfs, log, files, idx, result, kwargs,
                   remote_files, response, arg>>

----------------------------------------------------------------------------
(* pull_files_to_worker *)

CallPullFilesToWorker(fl, K) ==
    /\ pc = "idle"
    /\ store' = [store EXCEPT !["src"] = BucketWith(K)]
    /\ files' = fl
    /\ arg' = [arg EXCEPT !.op = "pull", !.staging = StageDir]
    /\ result' = 0
    /\ idx' = 1
    /\ pc' = "pull"
    /\ UNCHANGED <<cfg, localfs, log, returned, kwargs, remote_files, response>>

(* Variant: the whole key, directories included, is used as the name *)
LocalPath_WholeKey(staging, file) == staging \o Slash \o file

(* The local file a key is downloaded to *)
LocalPath(staging, file) == staging \o Slash \o BaseName(file)

(* One iteration of the loop: download_file inside try/except; the        *)
(* download of a key the bucket does not hold fails                        *)
PullDownload(ok) ==
    /\ pc = "pull"
    /\ idx <= Len(files)
    /\ LET file == files[idx]
           path == LocalPath(arg.staging, file)
           rq == [Req("download_file") EXCEPT
                    !.bucket = cfg.bucket, !.key = file, !.path = path,
                    !.ok = ok]
       IN  /\ ok => file \in DOMAIN store[cfg.bucket]
           /\ log' = Append(log, rq)
           /\ localfs' = IF ok THEN Put(localfs, path, store[cfg.bucket][file].body)
                         ELSE localfs
           /\ result' = IF ok THEN result ELSE 1
    /\ idx' = idx + 1
    /\ UNCHANGED <<cfg, store, pc, files, returned, kwargs, remote_files, response, arg>>

PullReturn ==
    /\ pc = "pull"
    /\ idx > Len(files)
    /\ returned' = "int"
    /\ pc' = "done"
    /\ UNCHANGED <<cfg, store, localfs, log, files, idx, result, kwargs,
                   remote_files, response, arg>>

----------------------------------------------------------------------------
(* transfer_files *)

DestTypes == {"S3Transfer", "other", "none"}

(* isinstance(dest_remote_handler, S3Transfer) *)
IsS3Transfer(t) == t = "S3Transfer"

(* With a destination that is not an S3Transfer the function body ends     *)
(* without a return statement: the call yields None and issues nothing.    *)
CallTransferFiles(fl, K, dt, db, dd) ==
    /\ pc = "idle"
    /\ store' = [store EXCEPT !["src"] = BucketWith(K)]
    /\ files' = fl
    /\ arg' = [arg EXCEPT !.op = "transfer", !.dest_type = dt, !.dest_bucket = db,
                          !.dest_directory = dd]
    /\ idx' = 1
    /\ IF IsS3Transfer(dt)
       THEN /\ result' = 0
            /\ pc' = "transfer"
            /\ returned' = returned
       ELSE /\ result' = result
            /\ pc' = "done"
            /\ returned' = "None"
    /\ UNCHANGED <<cfg, localfs, log, kwargs, remote_files, response>>

(* Variant: the whole key, directories included, is appended *)
TransferKey_WholeKey(directory, file) == directory \o Slash \o file

(* The key a file is copied to in the destination handler's bucket *)
TransferKey(directory, file) == directory \o Slash \o BaseName(file)

(* Variant: the copied object is taken away from the source bucket *)
TransferCopy_Moves(ok) ==
    /\ pc = "transfer"
    /\ idx <= Len(files)
    /\ LET file == files[idx]
           key == TransferKey(arg.dest_directory, file)
           rq == [Req("copy") EXCEPT
                    !.bucket = cfg.bucket, !.key = file,
                    !.dstBucket = arg.dest_bucket, !.dstKey = key,
                    !.ok = ok]
           copied == [store EXCEPT ![arg.dest_bucket] =
                         Put(@, key, CopyOf(store[cfg.bucket][file]))]
       IN  /\ ok => file \in DOMAIN store[cfg.bucket]
           /\ ok => ~(arg.dest_bucket = cfg.bucket /\ key = file)
           /\ log' = Append(log, rq)
           /\ store' = IF ok
                       THEN [copied EXCEPT ![cfg.bucket] = Remove(@, {file})]
                       ELSE store
           /\ result' = IF ok THEN result ELSE 1
    /\ idx' = idx + 1
    /\ UNCHANGED <<cfg, localfs, pc, files, returned, kwargs, remote_files, response, arg>>

(* One iteration of the loop: s3_client.copy inside try/except. The copy  *)
(* fails for a key the bucket does not hold, and S3 refuses the copy of an *)
(* object onto itself.                                                      *)
TransferCopy(ok) ==
    /\ pc = "transfer"
    /\ idx <= Len(files)
    /\ LET file == files[idx]
           key == TransferKey(arg.dest_directory, file)
           rq == [Req("copy") EXCEPT
                    !.bucket = cfg.bucket, !.key = file,
                    !.dstBucket = arg.dest_bucket, !.dstKey = key,
                    !.ok = ok]
       IN  /\ ok => file \in DOMAIN store[cfg.bucket]
           /\ ok => ~(arg.dest_bucket = cfg.bucket /\ key = file)
           /\ log' = Append(log, rq)
           /\ store' = IF ok
                       THEN [store EXCEPT ![arg.dest_bucket] =
                                Put(@, key, CopyOf(store[cfg.bucket][file]))]
                       ELSE store
           /\ result' = IF ok THEN result ELSE 1
    /\ idx' = idx + 1
    /\ UNCHANGED <<cfg, localfs, pc, files, returned, kwargs, remote_files, response, arg>>

TransferReturn ==
    /\ pc = "transfer"
    /\ idx > Len(files)
    /\ returned' = "int"
    /\ pc' = "done"
    /\ UNCHANGED <<cfg, store, localfs, log, files, idx, result, kwargs,
                   remote_files, response, arg>>

----------------------------------------------------------------------------
(* handle_post_copy_action *)

(* The name the loop computes for a file: the key itself for a move, and   *)
(* for a rename the destination joined to the base name, then rewritten    *)
NewFile(spec, file) ==
    IF spec.action = "rename"
    THEN ReSub(spec.pattern, spec.sub, spec.destination \o BaseName(file))
    ELSE file

(* Key= of the copy_object request *)
CopyKey(spec, file) == spec.destination \o Slash \o NewFile(spec, file)

(* self.spec["postCopyAction"]["action"] raises KeyError when the spec     *)
(* has no postCopyAction                                                    *)
CallHandlePostCopyAction(fl, K) ==
    /\ pc = "idle"
    /\ store' = [store EXCEPT !["src"] = BucketWith(K)]
    /\ files' = fl
    /\ idx' = 1
    /\ IF cfg.action = "absent"
       THEN pc' = "done" /\ returned' = "raised"
       ELSE /\ returned' = returned
            /\ pc' = IF cfg.action = "delete" THEN "pca_bulk"
                     ELSE IF cfg.action \in {"move", "rename"} THEN "pca_copy"
                     ELSE "pca_return"
    /\ arg' = [arg EXCEPT !.op = "pca"]
    /\ UNCHANGED <<cfg, localfs, log, result, kwargs, remote_files, response>>

(* Variant: one key only goes into the request, which is not Quiet *)
BulkDeleteRequest_FirstOnly(bucket, fl) ==
    [Req("delete_objects") EXCEPT
       !.bucket = bucket, !.keys = SubSeq(fl, 1, 1), !.quiet = FALSE]

(* Bucket= and Delete= of the delete_objects request of lines 61-67 *)
BulkDeleteRequest(bucket, fl) ==
    [Req("delete_objects") EXCEPT
       !.bucket = bucket, !.keys = fl, !.quiet = TRUE]

(* delete_objects for all files in one request, Quiet. The request either  *)
(* raises, or answers with the keys E it could not delete, which the code  *)
(* does not look at.                                                        *)
PcaBulkDelete(raises, E) ==
    /\ pc = "pca_bulk"
    /\ E \subseteq Range(files)
    /\ raises => E = Range(files)
    /\ log' = Append(log, [BulkDeleteRequest(cfg.bucket, files) EXCEPT
                             !.ok = ~raises, !.errors = E])
    /\ store' = [store EXCEPT ![cfg.bucket] = Remove(@, Range(files) \ E)]
    /\ IF raises
       THEN pc' = "done" /\ returned' = "raised"
       ELSE pc' = "pca_return" /\ returned' = returned
    /\ UNCHANGED <<cfg, localfs, files, idx, result, kwargs, remote_files, response, arg>>

(* Variant: the loop goes on to the next file without deleting *)
PcaCopy_NoDelete(ok) ==
    /\ pc = "pca_copy"
    /\ idx <= Len(files)
    /\ ok => files[idx] \in DOMAIN store[cfg.bucket]
    /\ log' = Append(log, [Req("copy_object") EXCEPT
                             !.bucket = cfg.bucket, !.key = files[idx],
                             !.dstBucket = cfg.bucket,
                             !.dstKey = cfg.destination \o Slash \o files[idx],
                             !.ok = ok])
    /\ IF ok
       THEN pc' = "pca_copy" /\ returned' = returned /\ idx' = idx + 1
       ELSE pc' = "done" /\ returned' = "raised" /\ idx' = idx
    /\ UNCHANGED <<cfg, store, localfs, files, result, kwargs, remote_files, response, arg>>

(* copy_object of the loop; it raises when the source key does not exist   *)
(* or the backend fails, which ends the call                                *)
PcaCopy(ok) ==
    /\ pc = "pca_copy"
    /\ idx <= Len(files)
    /\ LET file == files[idx]
           key == CopyKey(cfg, file)
       IN  /\ ok => file \in DOMAIN store[cfg.bucket]
           /\ log' = Append(log, [Req("copy_object") EXCEPT
                                    !.bucket = cfg.bucket, !.key = file,
                                    !.dstBucket = cfg.bucket, !.dstKey = key,
                                    !.ok = ok])
           /\ store' = IF ok
                       THEN [store EXCEPT ![cfg.bucket] =
                                Put(@, key, CopyOf(store[cfg.bucket][file]))]
                       ELSE store
    /\ IF ok
       THEN pc' = "pca_delete" /\ returned' = returned
       ELSE pc' = "done" /\ returned' = "raised"
    /\ UNCHANGED <<cfg, localfs, files, idx, result, kwargs, remote_files, response, arg>>

(* delete_objects of the loop, for the one file just copied *)
PcaDelete(raises, fails) ==
    /\ pc = "pca_delete"
    /\ raises => fails
    /\ LET file == files[idx]
       IN  /\ log' = Append(log, [Req("delete_objects") EXCEPT
                                    !.bucket = cfg.bucket, !.keys = <<file>>,
                                    !.quiet = TRUE, !.ok = ~raises,
                                    !.errors = IF fails THEN {file} ELSE {}])
           /\ store' = IF fails THEN store
                       ELSE [store EXCEPT ![cfg.bucket] = Remove(@, {file})]
    /\ IF raises
       THEN pc' = "done" /\ returned' = "raised" /\ idx' = idx
       ELSE pc' = "pca_copy" /\ returned' = returned /\ idx' = idx + 1
    /\ UNCHANGED <<cfg, localfs, files, result, kwargs, remote_files, response, arg>>

(* Variant: the status reports the errors of the requests *)
PcaReturn_Status ==
    /\ \/ pc = "pca_return"
       \/ pc = "pca_copy" /\ idx > Len(files)
    /\ result' = IF \E j \in DOMAIN log : log[j].errors # {} THEN 1 ELSE 0
    /\ returned' = "int"
    /\ pc' = "done"
    /\ UNCHANGED <<cfg, store, localfs, log, files, idx, kwargs,
                   remote_files, response, arg>>

(* return 0 *)
PcaReturn ==
    /\ \/ pc = "pca_return"
       \/ pc = "pca_copy" /\ idx > Len(files)
    /\ result' = 0
    /\ returned' = "int"
    /\ pc' = "done"
    /\ UNCHANGED <<cfg, store, localfs, log, files, idx, kwargs,
                   remote_files, response, arg>>

----------------------------------------------------------------------------
(* list_files *)

Directories == {NoString, PrefixIn}
FilePatterns == {NoString, PatA, PatAEnd, PatTmp}

(* Variant: the pattern is not applied *)
Keeps_All(file_pattern, key) == TRUE

(* The test of line 122: the object is kept *)
Keeps(file_pattern, key) ==
    ~ (file_pattern # NoString /\ ~ReMatch(file_pattern, BaseName(key)))

(* The keys of a page that get a head_object, in page order *)
RECURSIVE KeptOf(_, _)
KeptOf(file_pattern, contents) ==
    IF contents = <<>> THEN <<>>
    ELSE (IF Keeps(file_pattern, Head(contents)) THEN <<Head(contents)>> ELSE <<>>)
         \o KeptOf(file_pattern, Tail(contents))

CallListFiles(directory, file_pattern, K) ==
    /\ pc = "idle"
    /\ store' = [store EXCEPT !["src"] = BucketWith(K)]
    /\ arg' = [arg EXCEPT !.op = "list", !.directory = directory, !.file_pattern = file_pattern]
    /\ kwargs' = [Bucket |-> cfg.bucket, MaxKeys |-> MAX_OBJECTS_PER_QUERY,
                  Prefix |-> directory, ContinuationToken |-> NoToken]
    /\ remote_files' = EmptyMap
    /\ response' = NoResponse
    /\ pc' = "list"
    /\ UNCHANGED <<cfg, localfs, log, files, idx, result, returned>>

(* The request of one round with the response it got *)
ListRequest(kw, rsp) ==
    [Req("list_objects_v2") EXCEPT
       !.bucket = kw.Bucket, !.maxKeys = kw.MaxKeys,
       !.prefix = kw.Prefix, !.token = kw.ContinuationToken,
       !.keyCount = rsp.KeyCount, !.contents = rsp.Contents,
       !.nextToken = rsp.NextContinuationToken]

(* Variant: a zero key count is not told apart *)
ListOutcome_NoSentinel(rsp) ==
    IF rsp.NextContinuationToken # NoToken THEN "again" ELSE "dict"

(* How a round ends for a response: return None, go round again, or       *)
(* break and return remote_files                                           *)
ListOutcome(rsp) ==
    IF rsp.KeyCount = 0 THEN "None"
    ELSE IF rsp.NextContinuationToken # NoToken THEN "again"
    ELSE "dict"

(* Variant: the cursor is not carried to the next request *)
NextKwargs_NoCursor(kw, rsp) == kw

(* kwargs["ContinuationToken"] = response["NextContinuationToken"] *)
NextKwargs(kw, rsp) ==
    [kw EXCEPT !.ContinuationToken = rsp.NextContinuationToken]

Served == Cardinality({j \in DOMAIN log : log[j].op = "list_objects_v2"})

(* Variant: the error is caught and the sentinel returned *)
ListPageRaises_Swallowed ==
    /\ pc = "list"
    /\ log' = Append(log, [ListRequest(kwargs, NoResponse) EXCEPT !.ok = FALSE])
    /\ pc' = "done"
    /\ returned' = "None"
    /\ UNCHANGED <<cfg, store, localfs, files, idx, result, kwargs,
                   remote_files, response, arg>>

(* One round of the while loop whose list_objects_v2 raises *)
ListPageRaises ==
    /\ pc = "list"
    /\ log' = Append(log, [ListRequest(kwargs, NoResponse) EXCEPT !.ok = FALSE])
    /\ pc' = "done"
    /\ returned' = "raised"
    /\ UNCHANGED <<cfg, store, localfs, files, idx, result, kwargs,
                   remote_files, response, arg>>

(* The end of a round, lines 138-143: return None, carry the cursor to    *)
(* the next round, or break and return remote_files                        *)
ListContinue(rsp) ==
    LET outcome == ListOutcome(rsp)
    IN  IF outcome = "again"
        THEN /\ pc' = "list" /\ returned' = returned
             /\ kwargs' = NextKwargs(kwargs, rsp)
        ELSE /\ pc' = "done" /\ returned' = outcome /\ kwargs' = kwargs

(* The list_objects_v2 request of one round of the while loop. With       *)
(* objects that pass the filter the call goes on to their head_object      *)
(* lookups; with none the round ends here.                                 *)
ListPage(rsp) ==
    /\ pc = "list"
    /\ rsp \in ListResponses(Listing(kwargs.Bucket, kwargs.Prefix),
                             kwargs, Served)
    /\ log' = Append(log, ListRequest(kwargs, rsp))
    /\ response' = rsp
    /\ idx' = 1
    /\ IF rsp.KeyCount # 0 /\ KeptOf(arg.file_pattern, rsp.Contents) # <<>>
       THEN pc' = "list_head" /\ returned' = returned /\ kwargs' = kwargs
       ELSE ListContinue(rsp)
    /\ UNCHANGED <<cfg, store, localfs, files, result, remote_files, arg>>

(* The head_object request for the next object of the page that passes    *)
(* the filter; it raises (ok = FALSE) or its answer is stored in           *)
(* remote_files. After the last one the round ends.                        *)
ListHead(ok) ==
    /\ pc = "list_head"
    /\ LET kept == KeptOf(arg.file_pattern, response.Contents)
           key == kept[idx]
           file_attr == HeadObject(kwargs.Bucket, key)
       IN  /\ log' = Append(log, [Req("head_object") EXCEPT
                                    !.bucket = kwargs.Bucket, !.key = key,
                                    !.ok = ok])
           /\ IF ~ok
              THEN /\ pc' = "done" /\ returned' = "raised"
                   /\ UNCHANGED <<remote_files, idx, kwargs>>
              ELSE /\ remote_files' =
                         Put(remote_files, key,
                             [size |-> file_attr.ContentLength,
                              modified_time |-> file_attr.LastModified])
                   /\ IF idx < Len(kept)
                      THEN /\ idx' = idx + 1
                           /\ UNCHANGED <<pc, returned, kwargs>>
                      ELSE idx' = idx /\ ListContinue(response)
    /\ UNCHANGED <<cfg, store, localfs, files, result, response, arg>>

----------------------------------------------------------------------------
(* The specification *)

FileLists == SeqsUpTo(KeyUniverse, MaxFiles)

(* What the source bucket holds when a call starts *)
Contents == SUBSET KeyUniverse
TransferContents == {KeyUniverse, KeyUniverse \ {KeyB}}
WideLists == SeqsUpTo(WideKeys, MaxFiles)
WideContents == {WideKeys, WideKeys \ {KeyB}}

Next ==
    \/ pc = "idle" /\ \E N \in SUBSET LocalNames : CallPushFilesFromWorker(N)
    \/ pc = "push" /\ \E ok \in BOOLEAN : PushUpload(ok)
    \/ PushReturn
    \/ pc = "idle" /\ \E fl \in FileLists, K \in TransferContents :
                         CallPullFilesToWorker(fl, K)
    \/ pc = "pull" /\ \E ok \in BOOLEAN : PullDownload(ok)
    \/ PullReturn
    \/ pc = "idle" /\ \E fl \in WideLists, K \in WideContents,
                         dt \in DestTypes, db \in BucketNames,
                         dd \in {DirOut, PrefixIn} :
                         CallTransferFiles(fl, K, dt, db, dd)
    \/ pc = "transfer" /\ \E ok \in BOOLEAN : TransferCopy(ok)
    \/ TransferReturn
    \/ pc = "idle" /\ \E fl \in WideLists, K \in WideContents :
                         CallHandlePostCopyAction(fl, K)
    \/ pc = "pca_bulk" /\ \E raises \in BOOLEAN, E \in SUBSET Range(files) :
                             PcaBulkDelete(raises, E)
    \/ pc = "pca_copy" /\ \E ok \in BOOLEAN : PcaCopy(ok)
    \/ pc = "pca_delete" /\ \E raises, fails \in BOOLEAN : PcaDelete(raises, fails)
    \/ PcaReturn
    \/ pc = "idle" /\ \E d \in Directories, fp \in FilePatterns, K \in Contents :
                         CallListFiles(d, fp, K)
    \/ ListPageRaises
    \/ pc = "list" /\
         \E rsp \in ListResponses(Listing(kwargs.Bucket, kwargs.Prefix),
                                  kwargs, Served) : ListPage(rsp)
    \/ pc = "list_head" /\ \E ok \in BOOLEAN : ListHead(ok)

Spec == Init /\ [][Next]_vars

----------------------------------------------------------------------------
(* Reading the log *)

Indices(op) == {j \in DOMAIN log : log[j].op = op}

NoRequestFailed == \A j \in DOMAIN log : log[j].ok /\ log[j].errors = {}

AnyFailed == \E j \in DOMAIN log : ~log[j].ok

RECURSIVE ListReqsFrom(_)
ListReqsFrom(j) ==
    IF j > Len(log) THEN <<>>
    ELSE (IF log[j].op = "list_objects_v2" THEN <<log[j]>> ELSE <<>>)
         \o ListReqsFrom(j + 1)

(* The list_objects_v2 requests, in order *)
ListReqs == ListReqsFrom(1)

RECURSIVE PagesConcat(_)
PagesConcat(R) ==
    IF R = <<>> THEN <<>> ELSE Head(R).contents \o PagesConcat(Tail(R))

AllPagesNonEmpty ==
    \A j \in Indices("list_objects_v2") : log[j].ok /\ log[j].keyCount > 0

(* list_files: the objects under the prefix, and those passing the filter *)
Under == {k \in DOMAIN store[cfg.bucket] : StartsWith(k, arg.directory)}

Passes(k) ==
    arg.file_pattern = NoString \/ ReMatch(arg.file_pattern, BaseName(k))

Matching == {k \in Under : Passes(k)}

----------------------------------------------------------------------------
(* Claims *)

(* C1: push_files_from_worker attempts every file of the staging          *)
(* directory exactly once, whatever uploads fail, and returns 1 if and    *)
(* only if at least one upload failed, 0 otherwise.                        *)
C1_EveryFileAttemptedOnce ==
    (arg.op = "push" /\ pc = "done") =>
        /\ \A p \in DOMAIN localfs :
              Cardinality({j \in Indices("upload_file") : log[j].path = p}) = 1
        /\ returned = "int"
        /\ result = IF AnyFailed THEN 1 ELSE 0

(* C2: when the prefix matches no object and the first page reports a     *)
(* zero key count, list_files returns None after exactly one list request *)
(* and no metadata lookup; it does not return a (possibly empty) dict.     *)
C2_ZeroObjectsYieldsSentinel ==
    (arg.op = "list" /\ pc = "done" /\ returned # "raised" /\ Under = {}) =>
        /\ returned = "None"
        /\ returned # "dict"
        /\ Len(log) = 1
        /\ log[1].op = "list_objects_v2"
        /\ log[1].keyCount = 0
        /\ Indices("head_object") = {}

C2_Witness ==
    /\ arg.op = "list" /\ pc = "done" /\ returned = "None"
    /\ Under = {}
    /\ DOMAIN store[cfg.bucket] # {}
    /\ Len(log) = 1

(* C3: with N objects under the prefix of which M pass the name filter,   *)
(* however the backend pages them, the dict list_files returns has        *)
(* exactly the M passing keys, each with the size and modification time   *)
(* of its metadata lookup, and a lookup was issued for exactly those M    *)
(* objects; when every page carries objects and no request fails a dict   *)
(* is returned.                                                            *)
C3_ExactlyMatchingEntries ==
    (arg.op = "list" /\ pc = "done") =>
        /\ (AllPagesNonEmpty /\ NoRequestFailed) => returned = "dict"
        /\ returned = "dict" =>
              /\ DOMAIN remote_files = Matching
              /\ \A k \in Matching :
                    remote_files[k] =
                       [size |-> store[cfg.bucket][k].size,
                        modified_time |-> store[cfg.bucket][k].mtime]
              /\ \A j \in Indices("head_object") :
                    log[j].bucket = cfg.bucket /\ log[j].key \in Matching
              /\ \A k \in Matching :
                    Cardinality({j \in Indices("head_object") : log[j].key = k}) = 1

C3_Witness ==
    /\ arg.op = "list" /\ pc = "done" /\ returned = "dict"
    /\ Len(ListReqs) >= 2
    /\ Cardinality(Under) = 3
    /\ Cardinality(Matching) = 2
    /\ arg.file_pattern = PatTmp

(* C4: when the backend serves the objects in k non-empty pages,          *)
(* list_files makes exactly k list requests, each with MaxKeys 100, the   *)
(* first without a cursor and each later one with the cursor of the       *)
(* response just before it, and the result holds the matching entries of  *)
(* all k pages.                                                            *)
C4_OneRequestPerPage ==
    (arg.op = "list" /\ pc = "done" /\ AllPagesNonEmpty /\ NoRequestFailed) =>
        LET R == ListReqs
        IN  /\ returned = "dict"
            /\ Len(R) >= 1
            /\ \A j \in DOMAIN R : R[j].maxKeys = 100
            /\ R[1].token = NoToken
            /\ \A j \in 2..Len(R) : /\ R[j - 1].nextToken # NoToken
                                    /\ R[j].token = R[j - 1].nextToken
            /\ R[Len(R)].nextToken = NoToken
            /\ PagesConcat(R) = Listing(cfg.bucket, arg.directory)
            /\ DOMAIN remote_files = {k \in Range(PagesConcat(R)) : Passes(k)}

C4_Witness ==
    /\ arg.op = "list" /\ pc = "done" /\ returned = "dict"
    /\ AllPagesNonEmpty /\ NoRequestFailed
    /\ Len(ListReqs) = 3
    /\ Cardinality(DOMAIN remote_files) >= 2

(* C5: a move issues, for a list of n keys, n copy requests and n delete  *)
(* requests, and the delete of a key is issued only after the copy of     *)
(* that key has completed.                                                 *)
C5_MoveCopyPrecedesDelete ==
    (arg.op = "pca" /\ cfg.action = "move") =>
        /\ \A j \in Indices("delete_objects") :
              /\ Len(log[j].keys) = 1
              /\ j > 1
              /\ log[j - 1].op = "copy_object"
              /\ log[j - 1].ok
              /\ log[j - 1].key = log[j].keys[1]
        /\ returned = "int" =>
              /\ Cardinality(Indices("copy_object")) = Len(files)
              /\ Cardinality(Indices("delete_objects")) = Len(files)
              /\ Len(log) = 2 * Len(files)
              /\ \A n \in 1..Len(files) :
                    /\ log[2 * n - 1].op = "copy_object"
                    /\ log[2 * n - 1].key = files[n]
                    /\ log[2 * n].op = "delete_objects"
                    /\ log[2 * n].keys = <<files[n]>>

C5_Witness ==
    /\ arg.op = "pca" /\ cfg.action = "move" /\ cfg.destination = DestArchive
    /\ returned = "int"
    /\ files = <<KeyA, KeyB>>
    /\ Len(log) = 4

(* C6: rename with pattern ^tmp_, replacement done_ and destination       *)
(* archive/ applied to incoming/tmp_report.csv leaves the object under    *)
(* archive/done_report.csv, and the original key is gone.                  *)
C6_RenameExample ==
    (/\ arg.op = "pca" /\ cfg.action = "rename"
     /\ cfg.pattern = PatTmp /\ cfg.sub = SubDone
     /\ cfg.destination = DestArchiveSlash
     /\ files = <<KeyReport>>
     /\ returned = "int" /\ NoRequestFailed) =>
        /\ ExpectedRenamed \in DOMAIN store[cfg.bucket]
        /\ KeyReport \notin DOMAIN store[cfg.bucket]

(* C7: transfer_files with a destination handler that is not an           *)
(* S3Transfer ends with an error or a non-success status.                  *)
C7_UnsupportedPairingSignalled ==
    (arg.op = "transfer" /\ pc = "done" /\ ~IsS3Transfer(arg.dest_type)) =>
        \/ returned = "raised"
        \/ returned = "int" /\ result # 0

(* C8: transfer_files to another S3Transfer issues one copy request per   *)
(* key, in list order, from (source bucket, key) to (destination bucket,  *)
(* destination directory / base name), touches no local file, goes on     *)
(* after a failing copy, and returns 1 if and only if a copy failed.       *)
C8_NativeCopyPerKey ==
    (arg.op = "transfer" /\ IsS3Transfer(arg.dest_type)) =>
        /\ localfs = EmptyMap
        /\ Len(log) <= Len(files)
        /\ \A j \in DOMAIN log :
              /\ log[j].op = "copy"
              /\ log[j].path = NoString
              /\ log[j].bucket = cfg.bucket
              /\ log[j].key = files[j]
              /\ log[j].dstBucket = arg.dest_bucket
              /\ log[j].dstKey = arg.dest_directory \o Slash \o BaseName(files[j])
        /\ pc = "done" =>
              /\ Len(log) = Len(files)
              /\ returned = "int"
              /\ result = IF AnyFailed THEN 1 ELSE 0

C8_Witness ==
    /\ arg.op = "transfer" /\ IsS3Transfer(arg.dest_type) /\ pc = "done"
    /\ files = <<KeyB, KeyNested>>
    /\ ~log[1].ok /\ log[2].ok
    /\ result = 1

(* C9: pull_files_to_worker attempts every key exactly once in list       *)
(* order, each download writing to staging directory / base name, goes on *)
(* after a failing download, and returns 1 if and only if a download      *)
(* failed.                                                                  *)
C9_EveryKeyDownloadedOnce ==
    arg.op = "pull" =>
        /\ Len(log) <= Len(files)
        /\ \A j \in DOMAIN log :
              /\ log[j].op = "download_file"
              /\ log[j].bucket = cfg.bucket
              /\ log[j].key = files[j]
              /\ log[j].path = arg.staging \o Slash \o BaseName(files[j])
        /\ DOMAIN localfs = {log[j].path : j \in {i \in DOMAIN log : log[i].ok}}
        /\ pc = "done" =>
              /\ Len(log) = Len(files)
              /\ returned = "int"
              /\ result = IF AnyFailed THEN 1 ELSE 0

C9_Witness ==
    /\ arg.op = "pull" /\ pc = "done"
    /\ files = <<KeyNested, KeyA>>
    /\ ~log[1].ok /\ log[2].ok
    /\ result = 1

(* C10: a move copies every key, also one with '/' separators, to         *)
(* destination / base name of the key in the same bucket and then deletes *)
(* the original key.                                                        *)
C10_MoveToBaseName ==
    (arg.op = "pca" /\ cfg.action = "move") =>
        /\ \A j \in Indices("copy_object") :
              /\ log[j].dstBucket = cfg.bucket
              /\ log[j].dstKey = cfg.destination \o Slash \o BaseName(log[j].key)
        /\ (returned = "int" /\ NoRequestFailed) =>
              \A n \in 1..Len(files) :
                 /\ files[n] \notin DOMAIN store[cfg.bucket]
                 /\ (cfg.destination \o Slash \o BaseName(files[n]))
                       \in DOMAIN store[cfg.bucket]

(* The contents a bucket state holds in the handler's bucket *)
BodiesIn(st) == {st[cfg.bucket][k].body : k \in DOMAIN st[cfg.bucket]}

(* C11: during and after a move or rename, wherever it is interrupted, no *)
(* content is lost: a content stored in the bucket before a step of the   *)
(* call is still stored under some key after it.                           *)
C11_NoContentLost ==
    [][(arg.op = "pca" /\ cfg.action \in {"move", "rename"}) =>
          BodiesIn(store) \subseteq BodiesIn(store')]_vars

(* C12: with action delete exactly one delete_objects request is issued, *)
(* in quiet mode, naming all the given keys and only those, and no copy   *)
(* request is issued.                                                      *)
C12_OneQuietBulkDelete ==
    (arg.op = "pca" /\ cfg.action = "delete") =>
        /\ Indices("copy_object") = {}
        /\ Len(log) <= 1
        /\ pc = "done" =>
              /\ Len(log) = 1
              /\ log[1].op = "delete_objects"
              /\ log[1].bucket = cfg.bucket
              /\ log[1].quiet
              /\ log[1].keys = files

C12_Witness ==
    /\ arg.op = "pca" /\ cfg.action = "delete" /\ pc = "done"
    /\ returned = "int"
    /\ files = <<KeyNested, KeyA>>
    /\ Len(log) = 1
    /\ DOMAIN store[cfg.bucket] = WideKeys \ {KeyNested, KeyA}

(* C13 as stated: handle_post_copy_action returns 0 for every action and  *)
(* every list of keys, whether or not a delete or copy request failed.     *)
C13_AlwaysReturnsZero ==
    (arg.op = "pca" /\ pc = "done" /\ cfg.action # "absent") =>
        returned = "int" /\ result = 0

(* C13 as amended: whenever handle_post_copy_action returns, it returns   *)
(* 0, also when a quiet delete_objects reported keys it could not delete; *)
(* it returns unless a request raised (or the spec has no postCopyAction), *)
(* and then the exception leaves the call and no status is returned.       *)
C13_ReturnsZeroUnlessRaised ==
    (arg.op = "pca" /\ pc = "done") =>
        /\ returned \in {"int", "raised"}
        /\ returned = "int" => result = 0
        /\ returned = "raised" <=> (cfg.action = "absent" \/ AnyFailed)

C13_Witness ==
    /\ arg.op = "pca" /\ pc = "done" /\ cfg.action = "move"
    /\ returned = "int" /\ result = 0
    /\ Len(files) = 2
    /\ \E j \in DOMAIN log : log[j].errors # {}

(* The whole of s matches the pattern *)
FullMatches(p, s) == s = ParsePattern(p).lit

(* The pattern matches a prefix of s (all of s when it ends with $) *)
MatchesAtStart(p, s) ==
    LET P == ParsePattern(p)
    IN  StartsWith(s, P.lit) /\ (P.end => Len(s) = Len(P.lit))

(* C14 as stated: an object is in the result if and only if no pattern is *)
(* given or its leaf name matches the pattern in its entirety.             *)
C14_FullMatchFilter ==
    (arg.op = "list" /\ returned = "dict") =>
        DOMAIN remote_files =
           {k \in Under : arg.file_pattern = NoString
                          \/ FullMatches(arg.file_pattern, BaseName(k))}

(* C14 as amended: an object is in the result if and only if no pattern   *)
(* is given or the pattern matches at the beginning of its leaf name; a   *)
(* leaf name of which only a prefix matches is included, one in which the *)
(* pattern matches only further on is skipped.                             *)
C14_PrefixMatchFilter ==
    arg.op = "list" =>
        /\ \A j \in Indices("head_object") :
              arg.file_pattern = NoString
              \/ MatchesAtStart(arg.file_pattern, BaseName(log[j].key))
        /\ returned = "dict" =>
              DOMAIN remote_files =
                 {k \in Under : arg.file_pattern = NoString
                                \/ MatchesAtStart(arg.file_pattern, BaseName(k))}

C14_Witness ==
    /\ arg.op = "list" /\ returned = "dict"
    /\ arg.file_pattern = PatTmp
    /\ KeyNested \in DOMAIN remote_files
    /\ ~FullMatches(arg.file_pattern, BaseName(KeyNested))
    /\ KeyA \in Under /\ KeyA \notin DOMAIN remote_files

(* C15: list_files catches no backend error: when a list request or a     *)
(* metadata lookup fails, the call ends there with the error, and neither *)
(* a dict nor None is returned.                                            *)
C15_ListingErrorsPropagate ==
    arg.op = "list" =>
        /\ AnyFailed =>
              /\ pc = "done" /\ returned = "raised"
              /\ ~log[Len(log)].ok
              /\ \A j \in 1..(Len(log) - 1) : log[j].ok
        /\ returned \in {"dict", "None"} => ~AnyFailed
        /\ returned = "raised" => AnyFailed

C15_Witness ==
    /\ arg.op = "list" /\ pc = "done" /\ returned = "raised"
    /\ Len(ListReqs) = 2
    /\ log[Len(log)].op = "head_object" /\ ~log[Len(log)].ok
    /\ remote_files # EmptyMap

(* C16: with no post-copy action (none configured, or an action that is   *)
(* not delete, move or rename) handle_post_copy_action issues no copy and *)
(* no delete request, leaves the bucket as it was and completes normally.  *)
C16_NoneIsNoOp ==
    (arg.op = "pca" /\ pc = "done"
     /\ cfg.action \notin {"delete", "move", "rename"}) =>
        /\ log = <<>>
        /\ \E K \in WideContents : store[cfg.bucket] = BucketWith(K)
        /\ returned = "int"

(* C17: list_files ends with a normal result exactly at the first         *)
(* response that omits the next cursor: a call that ended normally got    *)
(* the cursor in every response but the last and none in the last, and a  *)
(* response without cursor ends the call normally once the lookups of its *)
(* page are done, all having succeeded.                                   *)
C17_EndsExactlyAtCursorOmission ==
    arg.op = "list" =>
        LET R == ListReqs
            n == Len(R)
        IN  /\ returned \in {"dict", "None"} =>
                  /\ n > 0
                  /\ R[n].nextToken = NoToken
                  /\ \A j \in 1..(n - 1) : R[j].nextToken # NoToken
            /\ (n > 0 /\ ~AnyFailed /\ R[n].nextToken = NoToken
                /\ pc # "list_head") =>
                  (pc = "done" /\ returned \in {"dict", "None"})

(* C18: list_files returns the sentinel only when no object is under the  *)
(* prefix: with an object under the prefix a call that ends normally      *)
(* returns a dict, however the listing is paged.                          *)
C18_SentinelOnlyWhenNothingUnder ==
    (arg.op = "list" /\ pc = "done" /\ returned # "raised" /\ Under # {}) =>
        returned = "dict"

(* A step of push_files_from_worker keeps every local staging file *)
LocalFilesKept ==
    \A p \in DOMAIN localfs : p \in DOMAIN localfs' /\ localfs'[p] = localfs[p]

(* The step ended with a successful copy of another key onto key k of the *)
(* source bucket, k now holding that key's content                         *)
OverwrittenByCopy(k) ==
    /\ arg.op = "transfer" /\ arg.dest_bucket = cfg.bucket
    /\ Len(log') = Len(log) + 1
    /\ LET rq == log'[Len(log')]
       IN  /\ rq.op = "copy" /\ rq.ok
           /\ rq.dstBucket = cfg.bucket /\ rq.dstKey = k /\ rq.key # k
           /\ rq.key \in DOMAIN store[cfg.bucket]
           /\ store'[cfg.bucket][k].body = store[cfg.bucket][rq.key].body

(* C19 as stated: no step of pull_files_to_worker or transfer_files       *)
(* changes any object of the source bucket, no step of                     *)
(* push_files_from_worker removes or changes a local staging file, and     *)
(* none of the three issues a delete request.                              *)
C19_SourceUntouched ==
    [][/\ arg.op \in {"pull", "transfer"} =>
             store'[cfg.bucket] = store[cfg.bucket]
       /\ arg.op = "push" => LocalFilesKept
       /\ arg.op \in {"pull", "transfer", "push"} =>
             \A j \in DOMAIN log' : log'[j].op \notin {"delete_objects", "delete_object"}]_vars

(* C19: no step of pull_files_to_worker or transfer_files removes an      *)
(* object of the source bucket, and every object keeps its content except  *)
(* the one under the destination key of a successful copy of another key   *)
(* into the source bucket itself; no step of push_files_from_worker        *)
(* removes or changes a local staging file; none of the three issues a     *)
(* delete request.                                                         *)
C19_SourceKeptButCopyTarget ==
    [][/\ arg.op \in {"pull", "transfer"} =>
             \A k \in DOMAIN store[cfg.bucket] :
                /\ k \in DOMAIN store'[cfg.bucket]
                /\ (store'[cfg.bucket][k] = store[cfg.bucket][k]
                    \/ OverwrittenByCopy(k))
       /\ arg.op = "pull" => store'[cfg.bucket] = store[cfg.bucket]
       /\ arg.op = "push" => LocalFilesKept
       /\ arg.op \in {"pull", "transfer", "push"} =>
             \A j \in DOMAIN log' : log'[j].op \notin {"delete_objects", "delete_object"}]_vars

C19_Witness ==
    /\ arg.op = "transfer" /\ pc = "done" /\ returned = "int" /\ result = 0
    /\ arg.dest_bucket = cfg.bucket
    /\ files = <<KeyA>>
    /\ Len(log) = 1 /\ log[1].op = "copy" /\ log[1].ok
    /\ log[1].key = KeyA /\ log[1].dstKey = KeyInA
    /\ store[cfg.bucket][KeyA] = InitialObject(KeyA)
    /\ store[cfg.bucket][KeyInA].body = InitialObject(KeyA).body
    /\ store[cfg.bucket][KeyInA].body # InitialObject(KeyInA).body

====
